---- MODULE Spec2Model ----
(***************************************************************************)
(* The FGP dashboard's REST handlers (src/src/api.rs): list_services,      *)
(* service_health, start_service and stop_service, as a state machine.     *)
(*                                                                         *)
(* One client issues requests one after another.  list_services is a loop  *)
(* over the registry directory, modelled one iteration per step, since a   *)
(* blocking health call inside the loop suspends the whole handler.  The   *)
(* filesystem, the control-socket client and the supervisor are outside    *)
(* the repository: what they return is an input of the step that calls     *)
(* them.  A health() call whose peer never answers does not return: the    *)
(* handler is then at pc = "hung", and no code of the handler runs again,  *)
(* since neither list_services nor service_health sets a timeout.          *)
(***************************************************************************)
EXTENDS Integers, Sequences, FiniteSets, TLC

VARIABLES
    pc,         \* "idle" | "probing" (inside list_services' loop) | "hung" | "done"
    op,         \* the request being served, or served last: [kind, name]
    dir,        \* the registry as list_services found it: [root, entries]
    remaining,  \* entries the read_dir iterator has not yielded yet
    services,   \* the Vec<ServiceInfo> list_services is building, in push order
    probes,     \* per pushed record: the probe outcome it was computed from
    calls,      \* calls the current request made to fgp_daemon, in order
    resp        \* the response returned: [code, body]

vars == <<pc, op, dir, remaining, services, probes, calls, resp>>

-----------------------------------------------------------------------------
(* Bounds *)

\* The most entries the registry directory holds.
MaxEntries == 3

-----------------------------------------------------------------------------
(* Option<T> and serde_json::Value *)

None == [some |-> FALSE]
Some(x) == [some |-> TRUE, v |-> x]

\* Option::unwrap_or
UnwrapOr(o, d) == IF o.some THEN o.v ELSE d

JNull == [t |-> "null"]
JStr(s) == [t |-> "str", s |-> s]
JNum(n) == [t |-> "num", n |-> n]
JObj(f) == [t |-> "obj", f |-> f]

\* Option<Value>::unwrap_or_default: Value's default is Null.
UnwrapOrDefault(o) == IF o.some THEN o.v ELSE JNull

\* value[key]: Null unless value is an object that holds the key.
Index(v, key) == IF v.t = "obj" /\ key \in DOMAIN v.f THEN v.f[key] ELSE JNull

\* Value::as_str
AsStr(v) == IF v.t = "str" THEN Some(v.s) ELSE None

\* Value::as_u64: Some for a number that is a non-negative integer (the numbers
\* of the model are integers far below 2^64), None for anything else.
\* (AsU64Signed: the same without the sign test, as as_i64 would read it.)
AsU64Signed(v) == IF v.t = "num" THEN Some(v.n) ELSE None
AsU64(v) == IF v.t = "num" /\ v.n >= 0 THEN Some(v.n) ELSE None

-----------------------------------------------------------------------------
(* Names and their byte order *)

\* The UTF-8 bytes of the names the model uses.
Bytes(name) ==
    CASE name = "alpha"   -> <<97, 108, 112, 104, 97>>
      [] name = "al"      -> <<97, 108>>
      [] name = "Mid"     -> <<77, 105, 100>>
      [] name = "unknown" -> <<117, 110, 107, 110, 111, 119, 110>>
      [] name = "ghost"   -> <<103, 104, 111, 115, 116>>

\* Lexicographic order on byte strings, as str's Ord.
RECURSIVE BytesLe(_, _)
BytesLe(a, b) ==
    IF a = <<>> THEN TRUE
    ELSE IF b = <<>> THEN FALSE
    ELSE IF Head(a) # Head(b) THEN Head(a) < Head(b)
    ELSE BytesLe(Tail(a), Tail(b))

\* a.name.cmp(&b.name) is not Greater
NameLe(a, b) == BytesLe(Bytes(a), Bytes(b))

\* Vec::sort_by(|a, b| a.name.cmp(&b.name)): a stable sort; insertion of each
\* record after the records that are not greater than it.
RECURSIVE Insert(_, _)
Insert(r, s) ==
    IF s = <<>> THEN <<r>>
    ELSE IF NameLe(Head(s).name, r.name) THEN <<Head(s)>> \o Insert(r, Tail(s))
    ELSE <<r>> \o s

\* (SortUnsorted: the Vec left in push order.)
RECURSIVE SortByName(_)
SortUnsorted(s) == s
SortByName(s) ==
    IF s = <<>> THEN <<>>
    ELSE Insert(s[Len(s)], SortByName(SubSeq(s, 1, Len(s) - 1)))

-----------------------------------------------------------------------------
(* The environment's answers *)

\* Directory entries read_dir may yield.  kind "dir": path.is_dir(); "file": it
\* is not; "ioerr": the entry is an Err, dropped by flatten().  utf8 = FALSE: the
\* file name is not valid UTF-8, so to_str() is None.
Entry(kind, fname, utf8) == [kind |-> kind, fname |-> fname, utf8 |-> utf8]

Candidates ==
    { Entry("dir", "alpha", TRUE), Entry("dir", "al", TRUE),
      Entry("dir", "Mid", TRUE), Entry("dir", "raw", FALSE),
      Entry("file", "notes", TRUE), Entry("ioerr", "lost", TRUE) }

Registries ==
    { [root |-> "absent", entries |-> {}], [root |-> "unreadable", entries |-> {}] }
    \cup { [root |-> "ok", entries |-> E] :
             E \in { S \in SUBSET Candidates : Cardinality(S) <= MaxEntries } }

\* Names a request may carry.
ReqNames == {"alpha", "Mid", "ghost"}

\* Health payloads a service may answer with: none, a non-object, and objects
\* whose fields are missing, well typed or wrongly typed.
Payloads ==
    { None,
      Some(JStr("ok")),
      Some(JObj(<<>>)),
      Some(JObj([status |-> JStr("degraded"), version |-> JStr("1.2"),
                 uptime_seconds |-> JNum(42)])),
      Some(JObj([status |-> JNum(7), version |-> JNum(12),
                 uptime_seconds |-> JStr("42")])),
      Some(JObj([version |-> JStr("1.2"), uptime_seconds |-> JNum(-1)])) }

\* response.error of a negative envelope: absent, or an object with a message.
ServiceErrors == { None, Some([message |-> "boom"]), Some([message |-> ""]) }

\* What probing a socket path can come to.  "absent": the path does not exist;
\* "new_err": FgpClient::new is Err; "call_err": health() is Err; "neg": health()
\* is Ok with ok == false; "aff": health() is Ok with ok == true; "hang": the
\* peer never answers and health() does not return.
Outcome(kind, err, error, result) ==
    [kind |-> kind, err |-> err, error |-> error, result |-> result]

Outcomes ==
    { Outcome("absent", "", None, None), Outcome("hang", "", None, None),
      Outcome("new_err", "connection refused", None, None),
      Outcome("call_err", "broken pipe", None, None) }
    \cup { Outcome("neg", "", e, None) : e \in ServiceErrors }
    \cup { Outcome("aff", "", None, p) : p \in Payloads }

\* The supervisor's answer to start or stop.
SupervisorResults == { [ok |-> TRUE, err |-> ""], [ok |-> FALSE, err |-> "permission denied"] }

-----------------------------------------------------------------------------
(* ApiResponse and the HTTP reply *)

\* ApiResponse::success
Success(data) == [ok |-> TRUE, data |-> Some(data), error |-> None]

\* ApiResponse::error
ApiError(message) == [ok |-> FALSE, data |-> None, error |-> Some(message)]

\* What the handler returns: a status code and the JSON body.  A bare Json body
\* (list_services) is answered with 200.
Http(code, body) == [code |-> code, body |-> body]

NoResp == Http(0, [ok |-> FALSE, data |-> None, error |-> None])
NoOp == [kind |-> "none", name |-> ""]
NoDir == [root |-> "none", entries |-> {}]

\* A call into fgp_daemon.
Call(fn, name) == [fn |-> fn, name |-> name]

-----------------------------------------------------------------------------
(* list_services *)

\* The name of a directory entry: its file name, or "unknown" when that is not
\* valid UTF-8.
EntryName(e) == IF e.utf8 THEN e.fname ELSE "unknown"

\* fgp_daemon::service_socket_path(name), as a string: a function of the name.
SocketPath(name) == "sock/" \o name

\* The arms of the (status, version, uptime) expression, by what probing the
\* socket came to.

\* The socket path does not exist.  (StoppedAsSocketError: the arm of a failed
\* FgpClient::new in its place.)
StoppedAsSocketError == [status |-> "socket_error", version |-> None, uptime |-> None]
StoppedRecord == [status |-> "stopped", version |-> None, uptime |-> None]

\* FgpClient::new is Err.  (SocketErrorMerged: the status of a failed health()
\* in its place.)
SocketErrorMerged == [status |-> "not_responding", version |-> None, uptime |-> None]
SocketErrorRecord == [status |-> "socket_error", version |-> None, uptime |-> None]

\* health() is Ok with ok == true: the fields are read from the result.
HealthyRecord(response) ==
    LET result == UnwrapOrDefault(response)
    IN  [status |-> UnwrapOr(AsStr(Index(result, "status")), "running"),
         version |-> AsStr(Index(result, "version")),
         uptime |-> AsU64(Index(result, "uptime_seconds"))]

\* match client.health(): the affirmative arm, and `_` for an Err and for an Ok
\* with ok == false alike.  (HealthArmUnhealthy: a third arm, of its own status,
\* for the Ok with ok == false.)
HealthArmUnhealthy(o) ==
    IF o.kind = "aff" THEN HealthyRecord(o.result)
    ELSE IF o.kind = "neg"
    THEN [status |-> "unhealthy", version |-> None, uptime |-> None]
    ELSE [status |-> "not_responding", version |-> None, uptime |-> None]
HealthArm(o) ==
    IF o.kind = "aff" THEN HealthyRecord(o.result)
    ELSE [status |-> "not_responding", version |-> None, uptime |-> None]

\* (status, version, uptime) of one service.
Classify(o) ==
    IF o.kind # "absent"
    THEN IF o.kind # "new_err" THEN HealthArm(o) ELSE SocketErrorRecord
    ELSE StoppedRecord

\* The ServiceInfo pushed for one directory.
ServiceInfo(name, o) ==
    LET c == Classify(o)
    IN  [name |-> name, status |-> c.status, version |-> c.version,
         uptime_seconds |-> c.uptime, socket_path |-> SocketPath(name)]

\* The fgp_daemon calls probing one socket makes: the path's exists(), then
\* FgpClient::new if it exists, then health() if the client was built.
ProbeCalls(name, o) ==
    <<Call("exists", name)>>
    \o (IF o.kind # "absent" THEN <<Call("new", name)>> ELSE <<>>)
    \o (IF o.kind \in {"call_err", "neg", "aff", "hang"}
        THEN <<Call("health", name)>> ELSE <<>>)

\* What list_services returns once the loop is over (or was never entered).
\* (ListReturnPropagating: a registry that cannot be read answered as an error.)
ListReturnPropagating(reg, svcs) ==
    IF reg.root = "ok" THEN Http(200, Success(SortByName(svcs)))
    ELSE Http(500, ApiError("registry unavailable"))
ListReturn(reg, svcs) ==
    IF reg.root = "absent" THEN Http(200, Success(<<>>))
    ELSE Http(200, Success(SortByName(svcs)))

\* The outcome a pushed record was computed from (list_services reads neither
\* the error text nor the error object).
Probed(name, o) == [name |-> name, kind |-> o.kind, result |-> o.result]

\* GET /api/services arrives: the root is looked up and read_dir is called.  A
\* missing root, a failing read_dir and an empty directory return at once.
ListBegin(reg) ==
    /\ pc = "idle"
    /\ op' = [kind |-> "list", name |-> ""]
    /\ dir' = reg
    /\ services' = <<>>
    /\ probes' = <<>>
    /\ calls' = <<>>
    /\ IF reg.root = "ok" /\ reg.entries # {}
       THEN /\ remaining' = reg.entries
            /\ pc' = "probing"
            /\ resp' = NoResp
       ELSE /\ remaining' = {}
            /\ pc' = "done"
            /\ resp' = ListReturn(reg, <<>>)

\* One iteration of the loop, on the entry e that read_dir yields next, with o
\* what probing its socket comes to.  An entry that is an Err or no directory is
\* skipped.  A health() call that does not return suspends the handler inside
\* the iteration.  After the last entry the records are sorted and returned.
ProbeStep(e, o) ==
    /\ pc = "probing"
    /\ e \in remaining
    /\ remaining' = remaining \ {e}
    /\ UNCHANGED <<op, dir>>
    /\ IF e.kind # "dir"
       THEN /\ UNCHANGED <<services, probes, calls>>
            /\ IF remaining' = {}
               THEN pc' = "done" /\ resp' = ListReturn(dir, services)
               ELSE pc' = "probing" /\ resp' = NoResp
       ELSE LET name == EntryName(e) IN
            /\ calls' = calls \o ProbeCalls(name, o)
            /\ IF o.kind = "hang"
               THEN /\ pc' = "hung"
                    /\ UNCHANGED <<services, probes, resp>>
               ELSE /\ services' = Append(services, ServiceInfo(name, o))
                    /\ probes' = Append(probes, Probed(name, o))
                    /\ IF remaining' = {}
                       THEN pc' = "done" /\ resp' = ListReturn(dir, services')
                       ELSE pc' = "probing" /\ resp' = NoResp

-----------------------------------------------------------------------------
(* service_health *)

\* The reply of GET /api/health/{service}, by what probing the socket came to.
HealthResponse(service, o) ==
    IF o.kind = "absent"
    THEN Http(404, ApiError("Service '" \o service \o "' is not running"))
    ELSE CASE o.kind = "new_err" -> Http(500, ApiError(o.err))
           [] o.kind = "call_err" -> Http(500, ApiError(o.err))
           [] o.kind = "aff" -> Http(200, Success(UnwrapOrDefault(o.result)))
           [] o.kind = "neg" ->
                LET error == IF o.error.some THEN Some(o.error.v.message) ELSE None
                IN  Http(500, ApiError(UnwrapOr(error, "")))

\* GET /api/health/{service}.  A health() call that does not return suspends
\* the handler.
ServiceHealth(service, o) ==
    /\ pc = "idle"
    /\ op' = [kind |-> "health", name |-> service]
    /\ dir' = NoDir
    /\ remaining' = {}
    /\ services' = <<>>
    /\ probes' = <<[name |-> service, outcome |-> o]>>
    /\ calls' = ProbeCalls(service, o)
    /\ IF o.kind = "hang"
       THEN pc' = "hung" /\ resp' = NoResp
       ELSE pc' = "done" /\ resp' = HealthResponse(service, o)

-----------------------------------------------------------------------------
(* start_service, stop_service *)

\* The reply of POST /api/start/{service} (verb "started") and of
\* POST /api/stop/{service} (verb "stopped") to the supervisor's answer r.
\* (ControlResponseAlwaysOk: the supervisor's answer ignored.)
ControlResponseAlwaysOk(service, verb, r) ==
    Http(200, Success(JObj([message |-> JStr("Service '" \o service \o "' " \o verb)])))
ControlResponse(service, verb, r) ==
    IF r.ok
    THEN Http(200, Success(JObj([message |->
                                    JStr("Service '" \o service \o "' " \o verb)])))
    ELSE Http(500, ApiError(r.err))

Control(kind, service, verb, r) ==
    /\ pc = "idle"
    /\ op' = [kind |-> kind, name |-> service]
    /\ dir' = NoDir
    /\ remaining' = {}
    /\ services' = <<>>
    /\ probes' = <<[name |-> service, outcome |-> r]>>
    /\ calls' = <<Call(kind, service)>>
    /\ pc' = "done"
    /\ resp' = ControlResponse(service, verb, r)

\* POST /api/start/{service}: fgp_daemon::start_service(&service).
StartService(service, r) == Control("start", service, "started", r)

\* POST /api/stop/{service}: fgp_daemon::stop_service(&service).
StopService(service, r) == Control("stop", service, "stopped", r)

-----------------------------------------------------------------------------
(* The specification *)

Init ==
    /\ pc = "idle"
    /\ op = NoOp
    /\ dir = NoDir
    /\ remaining = {}
    /\ services = <<>>
    /\ probes = <<>>
    /\ calls = <<>>
    /\ resp = NoResp

\* axum::serve: the reply is sent, the handler's locals are dropped, and the
\* server waits for the next request.  The handlers share no state.
Serve ==
    /\ pc = "done"
    /\ pc' = "idle"
    /\ op' = NoOp
    /\ dir' = NoDir
    /\ remaining' = {}
    /\ services' = <<>>
    /\ probes' = <<>>
    /\ calls' = <<>>
    /\ resp' = NoResp

ListStep == \E e \in remaining, o \in Outcomes : ProbeStep(e, o)

Next ==
    \/ \E reg \in Registries : ListBegin(reg)
    \/ ListStep
    \/ \E service \in ReqNames, o \in Outcomes : ServiceHealth(service, o)
    \/ \E service \in ReqNames, r \in SupervisorResults : StartService(service, r)
    \/ \E service \in ReqNames, r \in SupervisorResults : StopService(service, r)
    \/ Serve

Spec == Init /\ [][Next]_vars

\* The runtime keeps running a handler that can take its next step.
FairSpec == Spec /\ WF_vars(ListStep)

-----------------------------------------------------------------------------
(* Vocabulary of the properties *)

ListOp == op.kind = "list"
ListDone == pc = "done" /\ op.kind = "list"
HealthDone == pc = "done" /\ op.kind = "health"
ControlDone == pc = "done" /\ op.kind \in {"start", "stop"}

\* The data of the reply.
Data == resp.body.data.v

\* The installed services: the directories of the registry.
Installed == { e \in dir.entries : e.kind = "dir" }

Range(s) == { s[i] : i \in DOMAIN s }
Count(x, s) == Cardinality({ i \in DOMAIN s : s[i] = x })
IsPermutation(s, t) ==
    /\ Len(s) = Len(t)
    /\ \A x \in Range(s) \cup Range(t) : Count(x, s) = Count(x, t)

NoDetails(r) == r.version = None /\ r.uptime_seconds = None

\* The payload (an Option<Value>) is an object that holds the key.
Has(payload, key) ==
    payload.some /\ payload.v.t = "obj" /\ key \in DOMAIN payload.v.f

-----------------------------------------------------------------------------
(* C1 *)

\* C1: list_services never fails.  Whatever the registry (root absent, root
\* unreadable, any directories) and whatever each probe came to, the reply is
\* 200 with ok = true, a data sequence and no error; it holds one record per
\* installed service, named after it, and is empty when none is installed.
ListNeverFails ==
    ListDone =>
        /\ resp.code = 200
        /\ resp.body.ok = TRUE
        /\ resp.body.data.some
        /\ resp.body.error = None
        /\ Len(Data) = Cardinality(Installed)
        /\ { r.name : r \in Range(Data) } = { EntryName(e) : e \in Installed }
        /\ (Installed = {} => Data = <<>>)

ListFailedProbesWitness ==
    /\ ListDone
    /\ dir.root = "ok"
    /\ \E i, j \in DOMAIN probes :
          probes[i].kind = "new_err" /\ probes[j].kind \in {"call_err", "neg"}

-----------------------------------------------------------------------------
(* C2 *)

\* C2: the sequence list_services returns is sorted ascending by name in byte
\* order, and is a permutation of the records pushed during enumeration,
\* whatever order the directory was enumerated in.
ListSorted ==
    ListDone =>
        /\ \A i \in 1 .. Len(Data) - 1 :
              BytesLe(Bytes(Data[i].name), Bytes(Data[i + 1].name))
        /\ IsPermutation(Data, services)

ListReorderedWitness ==
    /\ ListDone
    /\ Len(services) = 3
    /\ Data[1] = services[3]
    /\ Data[3] = services[1]

-----------------------------------------------------------------------------
(* C3 *)

\* C3: a service whose socket path does not exist at probe time gets status
\* "stopped" with version and uptime_seconds absent, in the Vec and in the
\* reply, and no FgpClient::new and no health() is called for it.
StoppedWhenAbsent ==
    ListOp =>
        \A i \in DOMAIN probes :
            probes[i].kind = "absent" =>
                /\ services[i].name = probes[i].name
                /\ services[i].status = "stopped"
                /\ NoDetails(services[i])
                /\ \A k \in DOMAIN calls :
                      calls[k].name = probes[i].name => calls[k].fn = "exists"
                /\ (pc = "done" => services[i] \in Range(Data))

StoppedWitness ==
    /\ ListDone
    /\ \E i, j \in DOMAIN probes :
          /\ probes[i].kind = "absent"
          /\ probes[j].kind = "aff"
          /\ \E k \in DOMAIN calls : calls[k] = Call("health", probes[j].name)

-----------------------------------------------------------------------------
(* C4 *)

ConnectFailed(i) == probes[i].kind \in {"new_err", "call_err"}

\* C4, as claimed: every service whose socket exists but whose connection
\* attempt fails reports one and the same status, whether FgpClient::new failed
\* or health() returned an error; it differs from "stopped", and version and
\* uptime_seconds are absent.
ConnectFailuresMerged ==
    ListOp =>
        \A i, j \in DOMAIN probes :
            ConnectFailed(i) /\ ConnectFailed(j) =>
                /\ services[i].status = services[j].status
                /\ services[i].status # "stopped"
                /\ NoDetails(services[i])

\* C4, amended: such a service reports "socket_error" when FgpClient::new
\* failed and "not_responding" when health() returned an error: two statuses,
\* both other than "stopped", with version and uptime_seconds absent.
ConnectFailuresDistinguished ==
    ListOp =>
        \A i \in DOMAIN probes :
            ConnectFailed(i) =>
                /\ services[i].name = probes[i].name
                /\ services[i].status =
                      (IF probes[i].kind = "new_err" THEN "socket_error"
                       ELSE "not_responding")
                /\ services[i].status # "stopped"
                /\ NoDetails(services[i])
                /\ (pc = "done" => services[i] \in Range(Data))

ConnectFailuresWitness ==
    /\ ListDone
    /\ \E i, j \in DOMAIN probes :
          /\ probes[i].kind = "new_err" /\ probes[j].kind = "call_err"
          /\ services[i].status # services[j].status

-----------------------------------------------------------------------------
(* C5 *)

\* C5, as claimed: a service whose health() returned a negative envelope
\* reports a status that differs from the status of a service whose connection
\* or call failed, and from "stopped".
NegativeEnvelopeDistinct ==
    ListOp =>
        \A i, j \in DOMAIN probes :
            probes[i].kind = "neg" /\ ConnectFailed(j) =>
                /\ services[i].status # services[j].status
                /\ services[i].status # "stopped"

\* C5, amended: a negative envelope is reported as "not_responding", the very
\* status of a health() call that returned an error; it differs from "stopped"
\* and from the "socket_error" of a failed FgpClient::new, and version and
\* uptime_seconds are absent.
NegativeEnvelopeNotResponding ==
    ListOp =>
        \A i \in DOMAIN probes :
            probes[i].kind = "neg" =>
                /\ services[i].name = probes[i].name
                /\ services[i].status = "not_responding"
                /\ services[i].status # "stopped"
                /\ NoDetails(services[i])
                /\ \A j \in DOMAIN probes :
                      /\ probes[j].kind = "call_err" =>
                            services[j].status = services[i].status
                      /\ probes[j].kind = "new_err" =>
                            services[j].status # services[i].status
                /\ (pc = "done" => services[i] \in Range(Data))

NegativeEnvelopeWitness ==
    /\ ListDone
    /\ \E i, j, k \in DOMAIN probes :
          /\ probes[i].kind = "neg"
          /\ probes[j].kind = "call_err"
          /\ probes[k].kind = "new_err"

-----------------------------------------------------------------------------
(* C6 *)

\* The status a record takes from an affirmative envelope's payload.
PayloadStatus(payload) ==
    IF Has(payload, "status") /\ payload.v.f["status"].t = "str"
    THEN payload.v.f["status"].s
    ELSE "running"

\* Its uptime_seconds.
PayloadUptime(payload) ==
    IF /\ Has(payload, "uptime_seconds")
       /\ payload.v.f["uptime_seconds"].t = "num"
       /\ payload.v.f["uptime_seconds"].n >= 0
    THEN Some(payload.v.f["uptime_seconds"].n)
    ELSE None

\* C6, as claimed: for an affirmative envelope, status is the payload's status
\* when that is a string and "running" otherwise; version is the payload's
\* version whenever the payload holds one; uptime_seconds is the payload's when
\* that is an unsigned integer and absent otherwise; no result object counts as
\* an empty payload.
PayloadVersionWhenPresent ==
    ListOp =>
        \A i \in DOMAIN probes :
            probes[i].kind = "aff" =>
                LET payload == probes[i].result IN
                /\ services[i].status = PayloadStatus(payload)
                /\ services[i].uptime_seconds = PayloadUptime(payload)
                /\ IF Has(payload, "version")
                   THEN /\ services[i].version.some
                        /\ JStr(services[i].version.v) = payload.v.f["version"]
                   ELSE services[i].version = None

\* C6, amended: version is the payload's version when that is a string, and
\* absent otherwise; the rest as claimed.  A missing or wrongly typed field
\* never yields a failure status for the record.
PayloadFieldsRead ==
    ListOp =>
        \A i \in DOMAIN probes :
            probes[i].kind = "aff" =>
                LET payload == probes[i].result IN
                /\ services[i].name = probes[i].name
                /\ services[i].status = PayloadStatus(payload)
                /\ services[i].uptime_seconds = PayloadUptime(payload)
                /\ services[i].version =
                      (IF Has(payload, "version") /\ payload.v.f["version"].t = "str"
                       THEN Some(payload.v.f["version"].s)
                       ELSE None)
                /\ (~Has(payload, "status") \/ payload.v.f["status"].t # "str"
                      => services[i].status = "running")
                /\ (pc = "done" => services[i] \in Range(Data))

PayloadWitness ==
    /\ ListDone
    /\ \E i, j, k \in DOMAIN probes :
          /\ probes[i].kind = "aff" /\ probes[i].result = None
          /\ probes[j].kind = "aff"
          /\ services[j].status = "degraded"
          /\ services[j].version = Some("1.2")
          /\ services[j].uptime_seconds = Some(42)
          /\ probes[k].kind = "aff"
          /\ Has(probes[k].result, "version")
          /\ probes[k].result.v.f["version"].t = "num"
          /\ Has(probes[k].result, "uptime_seconds")

-----------------------------------------------------------------------------
(* C7 *)

\* The status code and the ok flag service_health answers each outcome with.
HealthCodes(data) ==
    LET o == probes[1].outcome IN
    /\ o.kind = "absent" => resp.code = 404 /\ resp.body.ok = FALSE
    /\ o.kind = "aff" =>
          resp.code = 200 /\ resp.body.ok = TRUE /\ resp.body.data = Some(data)
    /\ o.kind \in {"neg", "new_err", "call_err"} =>
          resp.code = 500 /\ resp.body.ok = FALSE
    /\ resp.code \in {200, 404, 500}
    /\ resp.code = 404 <=> o.kind = "absent"
    /\ resp.code = 200 <=> o.kind = "aff"

\* C7, as claimed: service_health answers 404 exactly when the socket path
\* does not exist, 200 exactly when health() returned an affirmative envelope,
\* with data the raw payload or an empty object when the service sent none,
\* and 500 with ok = false in every other case.
HealthMappingEmptyObject ==
    HealthDone =>
        LET result == probes[1].outcome.result
        IN  HealthCodes(IF result.some THEN result.v ELSE JObj(<<>>))

\* C7, as the code has it: the same mapping, with data the raw payload, or JSON
\* null when the service sent none (Value's default), so that data and error
\* are both null in that reply.
HealthMapping ==
    HealthDone =>
        LET result == probes[1].outcome.result
        IN  HealthCodes(IF result.some THEN result.v ELSE JNull)

HealthOmittedPayloadWitness ==
    /\ HealthDone
    /\ probes[1].outcome.kind = "aff"
    /\ probes[1].outcome.result = None
    /\ resp.code = 200

-----------------------------------------------------------------------------
(* C8 *)

\* C8: start_service and stop_service make one supervisor call for the name,
\* and no other call; the reply is 200 with ok = true exactly when the
\* supervisor returned Ok, and 500 with ok = false and the supervisor's error
\* text when it returned an error.
ControlSurfacesOutcome ==
    ControlDone =>
        LET r == probes[1].outcome IN
        /\ calls = <<Call(op.kind, op.name)>>
        /\ (resp.code = 200 /\ resp.body.ok = TRUE) <=> r.ok
        /\ r.ok => resp.body.data.some /\ resp.body.error = None
        /\ ~r.ok =>
              /\ resp.code = 500
              /\ resp.body.ok = FALSE
              /\ resp.body.data = None
              /\ resp.body.error = Some(r.err)

ControlDeniedWitness ==
    /\ ControlDone
    /\ op = [kind |-> "start", name |-> "ghost"]
    /\ ~probes[1].outcome.ok
    /\ resp.code = 500

-----------------------------------------------------------------------------
(* C9 *)

\* C9: a listing whose health() call to one service never returns still
\* returns its reply eventually.
HungListingReturns ==
    (pc = "hung" /\ op.kind = "list") ~> (pc = "done" /\ op.kind = "list")

-----------------------------------------------------------------------------
(* C10 *)

\* C10: every failure reply (ok = false) of service_health, start_service and
\* stop_service carries a non-empty error string.
FailuresCarryMessage ==
    pc = "done" /\ op.kind \in {"health", "start", "stop"} /\ resp.body.ok = FALSE
        => resp.body.error.some /\ resp.body.error.v # ""

====
